---- MODULE Spec2Model ----
(***************************************************************************)
(* rbot: the command-line / interactive client (src/rbot.py) and the web   *)
(* form client (src/ragbot_streamlit.py).                                  *)
(*                                                                         *)
(* Text is a sequence of one-character strings.  A Python value is a pair  *)
(* <<tag, payload>>: None, str, list or dict (a dict is the sequence of    *)
(* its <<key, value>> items in insertion order).                           *)
(***************************************************************************)
EXTENDS Integers, Sequences, FiniteSets, TLC

---------------------------------------------------------------------------
(* Bounds of the model *)

\* most Turns a History holds before the loop takes no further prompt
MaxTurns == 4
\* most fragments of one streamed response
MaxFrags == 2

---------------------------------------------------------------------------
(* Python values *)

None == <<"none", <<>>>>
Str(s) == <<"str", s>>
List(xs) == <<"list", xs>>
Dict(items) == <<"dict", items>>
Tag(x) == x[1]
Val(x) == x[2]

\* if x: (truthiness of None, str, list, dict)
Truthy(x) == Val(x) # <<>>

\* d[k] = v on a dict's item sequence: an existing key keeps its place
RECURSIVE DictSet(_, _, _)
DictSet(items, k, v) ==
    IF items = <<>> THEN << <<k, v>> >>
    ELSE IF Head(items)[1] = k THEN << <<k, v>> >> \o Tail(items)
    ELSE << Head(items) >> \o DictSet(Tail(items), k, v)

DictHas(items, k) == \E i \in 1..Len(items) : items[i][1] = k
DictGet(items, k) == items[CHOOSE i \in 1..Len(items) : items[i][1] = k][2]

---------------------------------------------------------------------------
(* Text *)

UpperAlpha == <<"A","B","C","D","E","F","G","H","I","J","K","L","M",
                "N","O","P","Q","R","S","T","U","V","W","X","Y","Z">>
LowerAlpha == <<"a","b","c","d","e","f","g","h","i","j","k","l","m",
                "n","o","p","q","r","s","t","u","v","w","x","y","z">>
Whitespace == {" ", "\t", "\n", "\r"}

LowerChar(c) ==
    IF \E i \in 1..26 : UpperAlpha[i] = c
    THEN LowerAlpha[CHOOSE i \in 1..26 : UpperAlpha[i] = c]
    ELSE c

\* str.lower()
Lower(s) == [i \in 1..Len(s) |-> LowerChar(s[i])]

\* str.startswith(p)
StartsWith(s, p) == Len(s) >= Len(p) /\ SubSeq(s, 1, Len(p)) = p

RECURSIVE LStrip(_)
LStrip(s) ==
    IF s # <<>> /\ Head(s) \in Whitespace THEN LStrip(Tail(s)) ELSE s

RECURSIVE RStrip(_)
RStrip(s) ==
    IF s # <<>> /\ s[Len(s)] \in Whitespace
    THEN RStrip(SubSeq(s, 1, Len(s) - 1)) ELSE s

\* str.strip()
Strip(s) == RStrip(LStrip(s))

\* "".join(parts)
RECURSIVE Concat(_)
Concat(parts) == IF parts = <<>> THEN <<>> ELSE Head(parts) \o Concat(Tail(parts))

role_key == <<"r","o","l","e">>
content_key == <<"c","o","n","t","e","n","t">>
system_role == <<"s","y","s","t","e","m">>
user_role == <<"u","s","e","r">>
assistant_role == <<"a","s","s","i","s","t","a","n","t">>

\* {"role": role, "content": content}
Turn(role, content) == Dict(<< <<role_key, Str(role)>>, <<content_key, content>> >>)

---------------------------------------------------------------------------
(* json.dump / json.load *)

EscapeCharPlain(c) == <<c>>

\* one character inside a JSON string literal
EscapeChar(c) ==
    CASE c = "\"" -> <<"\\", "\"">>
      [] c = "\\" -> <<"\\", "\\">>
      [] c = "\n" -> <<"\\", "n">>
      [] c = "\r" -> <<"\\", "r">>
      [] c = "\t" -> <<"\\", "t">>
      [] OTHER -> <<c>>

RECURSIVE EscapeText(_)
EscapeText(s) ==
    IF s = <<>> THEN <<>> ELSE EscapeChar(Head(s)) \o EscapeText(Tail(s))

DumpString(s) == <<"\"">> \o EscapeText(s) \o <<"\"">>

RECURSIVE DumpValue(_)
RECURSIVE DumpItems(_)
RECURSIVE DumpPairs(_)

DumpItems(xs) ==
    IF xs = <<>> THEN <<>>
    ELSE DumpValue(Head(xs))
         \o (IF Len(xs) > 1 THEN <<",", " ">> ELSE <<>>)
         \o DumpItems(Tail(xs))

DumpPairs(ps) ==
    IF ps = <<>> THEN <<>>
    ELSE DumpString(Head(ps)[1]) \o <<":", " ">> \o DumpValue(Head(ps)[2])
         \o (IF Len(ps) > 1 THEN <<",", " ">> ELSE <<>>)
         \o DumpPairs(Tail(ps))

\* json.dumps(x) with the default separators
DumpValue(x) ==
    CASE Tag(x) = "none" -> <<"n","u","l","l">>
      [] Tag(x) = "str"  -> DumpString(Val(x))
      [] Tag(x) = "list" -> <<"[">> \o DumpItems(Val(x)) \o <<"]">>
      [] Tag(x) = "dict" -> <<"{">> \o DumpPairs(Val(x)) \o <<"}">>

json_dump(x) == DumpValue(x)

\* a parse result: ok, the value, the index of the next unread character
Parsed(v, i) == [ok |-> TRUE, val |-> v, pos |-> i]
ParseError == [ok |-> FALSE, val |-> None, pos |-> 0]

RECURSIVE SkipWs(_, _)
SkipWs(t, i) == IF i <= Len(t) /\ t[i] \in Whitespace THEN SkipWs(t, i + 1) ELSE i

Unescape(c) ==
    CASE c = "n" -> "\n"
      [] c = "r" -> "\r"
      [] c = "t" -> "\t"
      [] OTHER -> c

\* the characters of a string literal from index i (after the opening quote)
RECURSIVE ParseChars(_, _, _)
ParseChars(t, i, acc) ==
    IF i > Len(t) THEN ParseError
    ELSE IF t[i] = "\"" THEN Parsed(Str(acc), i + 1)
    ELSE IF t[i] = "\\"
         THEN IF i + 1 > Len(t) \/ t[i + 1] \notin {"\"", "\\", "/", "n", "r", "t"}
              THEN ParseError
              ELSE ParseChars(t, i + 2, Append(acc, Unescape(t[i + 1])))
    ELSE IF t[i] \in {"\n", "\r", "\t"} THEN ParseError
    ELSE ParseChars(t, i + 1, Append(acc, t[i]))

RECURSIVE ParseValue(_, _)
RECURSIVE ParseItems(_, _, _)
RECURSIVE ParsePairs(_, _, _)

\* after "[" or ",": a value, then "," or "]"
ParseItems(t, i, acc) ==
    LET r == ParseValue(t, i) IN
    IF ~r.ok THEN ParseError
    ELSE LET j == SkipWs(t, r.pos) IN
         IF j > Len(t) THEN ParseError
         ELSE IF t[j] = "]" THEN Parsed(List(Append(acc, r.val)), j + 1)
         ELSE IF t[j] = "," THEN ParseItems(t, j + 1, Append(acc, r.val))
         ELSE ParseError

\* after "{" or ",": "key": value, then "," or "}"
ParsePairs(t, i, acc) ==
    LET k0 == SkipWs(t, i) IN
    IF k0 > Len(t) \/ t[k0] # "\"" THEN ParseError
    ELSE LET k == ParseChars(t, k0 + 1, <<>>) IN
         IF ~k.ok THEN ParseError
         ELSE LET c == SkipWs(t, k.pos) IN
              IF c > Len(t) \/ t[c] # ":" THEN ParseError
              ELSE LET r == ParseValue(t, c + 1) IN
                   IF ~r.ok THEN ParseError
                   ELSE LET j == SkipWs(t, r.pos)
                            items == DictSet(acc, Val(k.val), r.val)
                        IN IF j > Len(t) THEN ParseError
                           ELSE IF t[j] = "}" THEN Parsed(Dict(items), j + 1)
                           ELSE IF t[j] = "," THEN ParsePairs(t, j + 1, items)
                           ELSE ParseError

ParseValue(t, i0) ==
    LET i == SkipWs(t, i0) IN
    IF i > Len(t) THEN ParseError
    ELSE IF t[i] = "\"" THEN ParseChars(t, i + 1, <<>>)
    ELSE IF t[i] = "[" THEN
         LET j == SkipWs(t, i + 1) IN
         IF j <= Len(t) /\ t[j] = "]" THEN Parsed(List(<<>>), j + 1)
         ELSE ParseItems(t, i + 1, <<>>)
    ELSE IF t[i] = "{" THEN
         LET j == SkipWs(t, i + 1) IN
         IF j <= Len(t) /\ t[j] = "}" THEN Parsed(Dict(<<>>), j + 1)
         ELSE ParsePairs(t, i + 1, <<>>)
    ELSE IF i + 3 <= Len(t) /\ SubSeq(t, i, i + 3) = <<"n","u","l","l">>
         THEN Parsed(None, i + 4)
    ELSE ParseError

\* json.loads(text): one value and nothing but whitespace after it;
\* ok = FALSE stands for json.JSONDecodeError
json_load(t) ==
    LET r == ParseValue(t, 1) IN
    IF r.ok /\ SkipWs(t, r.pos) > Len(t) THEN r ELSE ParseError

---------------------------------------------------------------------------
(* The provider's answer to one call, as the client library delivers it *)

\* token["choices"][0]["delta"] of one streamed fragment
Delta(text) == Dict(<< <<content_key, text>> >>)
\* a fragment that carries no "choices"/"delta" (a malformed response)
Malformed == None

\* kind "stream": the fragments the generator yields, then (error) an
\*   exception of the client library; no fragments and error is a call that
\*   fails at once (transport, authentication)
\* kind "payload": the single response object of a stream=False call, a
\*   mapping whose iteration yields its keys
\* kind "completion": the response mapping of the single-prompt provider
\* body: the payload's text, or the single-prompt provider's response mapping
Response(kind, frags, error, keys, body) ==
    [kind |-> kind, frags |-> frags, error |-> error, keys |-> keys,
     body |-> body]
NoResponse == Response("none", <<>>, FALSE, <<>>, None)

PayloadKeys == <<"id", "object", "created", "model", "choices", "usage">>
completion_key == <<"c","o","m","p","l","e","t","i","o","n">>

HUMAN_PROMPT == <<"\n","\n","H","u","m","a","n",":">>
AI_PROMPT == <<"\n","\n","A","s","s","i","s","t","a","n","t",":">>

\* f"{x}" of a prompt: the text, or the word None
Format(x) == IF Tag(x) = "str" THEN Val(x) ELSE <<"N","o","n","e">>

---------------------------------------------------------------------------
(* chat *)

\* what a call of chat did: it returned value or raised exc; messages is
\* args["messages"] and sent the prompt string and stop sequences handed to
\* the provider (None when not built); called tells whether a provider call
\* was made
Outcome(kind, value, exc, messages, sent, stop, called) ==
    [kind |-> kind, value |-> value, exc |-> exc, messages |-> messages,
     sent |-> sent, stop |-> stop, called |-> called]
NoOutcome == Outcome("none", None, "", None, None, <<>>, FALSE)

RECURSIVE SystemTurns(_)
SystemTurns(texts) ==
    IF texts = <<>> THEN <<>>
    ELSE <<Turn(system_role, Str(Head(texts)))>> \o SystemTurns(Tail(texts))

chat_messagesAppendAlways(prompt, decorators, history) ==
    IF Truthy(history)
    THEN List(Append(Val(history), Turn(user_role, prompt)))
    ELSE List(Append(SystemTurns(decorators), Turn(user_role, prompt)))

\* args["messages"]: the history when one is provided, else one built from
\* the decorators and the prompt
chat_messages(prompt, decorators, history) ==
    IF Truthy(history)
    THEN history
    ELSE List(Append(SystemTurns(decorators), Turn(user_role, prompt)))

\* the loop over the streamed fragments: response += text for each text that
\* is neither missing nor empty; a malformed fragment raises
RECURSIVE Accumulate(_, _)
Accumulate(frags, response) ==
    IF frags = <<>> THEN [ok |-> TRUE, response |-> response]
    ELSE IF Head(frags) = Malformed THEN [ok |-> FALSE, response |-> response]
    ELSE LET text == IF DictHas(Val(Head(frags)), content_key)
                     THEN DictGet(Val(Head(frags)), content_key)
                     ELSE None
         IN Accumulate(Tail(frags),
                       IF Truthy(text) THEN response \o Val(text) ELSE response)

chat_openaiPartial(prompt, decorators, stream, history, resp) ==
    LET messages == chat_messages(prompt, decorators, history)
        acc == Accumulate(resp.frags, <<>>)
    IN  Outcome("return", Str(acc.response), "", messages, None, <<>>, TRUE)

chat_openai(prompt, decorators, stream, history, resp) ==
    LET messages == chat_messages(prompt, decorators, history)
        acc == Accumulate(resp.frags, <<>>)
    IN  IF resp.kind = "payload"
        THEN \* for token in <mapping>: token is a key, token["choices"] raises
             IF resp.keys = <<>>
             THEN Outcome("return", Str(<<>>), "", messages, None, <<>>, TRUE)
             ELSE Outcome("raise", None, "TypeError", messages, None, <<>>, TRUE)
        ELSE IF ~acc.ok
        THEN Outcome("raise", None, "KeyError", messages, None, <<>>, TRUE)
        ELSE IF resp.error
        THEN Outcome("raise", None, "ProviderError", messages, None, <<>>, TRUE)
        ELSE Outcome("return", Str(acc.response), "", messages, None, <<>>, TRUE)

\* the completion call without the stop sequence and the assistant marker
chat_anthropicNoStop(prompt, resp) ==
    LET sent == Str(HUMAN_PROMPT \o <<" ">> \o Format(prompt))
        stop == <<>>
    IN  IF resp.error
        THEN Outcome("raise", None, "ProviderError", None, sent, stop, TRUE)
        ELSE IF ~DictHas(Val(resp.body), completion_key)
        THEN Outcome("raise", None, "KeyError", None, sent, stop, TRUE)
        ELSE Outcome("return", DictGet(Val(resp.body), completion_key),
                     "", None, sent, stop, TRUE)

chat_anthropic(prompt, resp) ==
    LET sent == Str(HUMAN_PROMPT \o <<" ">> \o Format(prompt) \o <<" ">> \o AI_PROMPT)
        stop == <<HUMAN_PROMPT>>
    IN  IF resp.error
        THEN Outcome("raise", None, "ProviderError", None, sent, stop, TRUE)
        ELSE IF ~DictHas(Val(resp.body), completion_key)
        THEN Outcome("raise", None, "KeyError", None, sent, stop, TRUE)
        ELSE Outcome("return", DictGet(Val(resp.body), completion_key),
                     "", None, sent, stop, TRUE)

\* chat(prompt, decorators, model, stream, history, engine): any engine other
\* than the two named falls off the end of the function
chat(prompt, decorators, stream, history, engine, resp) ==
    IF engine = "openai" THEN chat_openai(prompt, decorators, stream, history, resp)
    ELSE IF engine = "anthropic" THEN chat_anthropic(prompt, resp)
    ELSE Outcome("return", None, "", None, None, <<>>, FALSE)

---------------------------------------------------------------------------
(* State *)

VARIABLES
    pc,            \* where the program is: "start", "awaiting_input" (the
                   \* interactive loop at input()), "single" (before the
                   \* one-shot prompt), "web_form", "terminated" (the loop
                   \* left by break), "done", "crashed" (uncaught exception)
    frontend,      \* "cli" (rbot.py), "web" (ragbot_streamlit.py), "" before
    args,          \* the parsed command line
    env,           \* what the invocation reads besides the session files
    decorators,    \* the decorator texts in use
    history,       \* the conversation history
    line,          \* the last line input() returned (None before the first)
    loaded,        \* whether history came from a session file
    calls,         \* calls of chat made by this invocation
    call,          \* the arguments of the last call of chat
    result,        \* what the last call of chat did
    error,         \* the exception that ended the invocation, "" if none
    files,         \* the files under the sessions directory: path -> text
    lastSaved      \* path -> the history the last /save to it wrote

run_vars == <<pc, frontend, args, env, decorators, history, line, loaded,
              calls, call, result, error>>
vars == <<pc, frontend, args, env, decorators, history, line, loaded,
          calls, call, result, error, files, lastSaved>>

---------------------------------------------------------------------------
(* Inputs *)

\* the ordered text blocks the loader returns for the paths given
DecoratorLists == { <<>>, << <<"x">> >>, << <<"x">>, <<"y">> >>, << <<"y">>, <<"x">> >> }

\* a prompt that begins like the save command without its space and holds
\* a quote and a backslash
sample_prompt == <<"/","s","a","v","e","\"","\\">>
quit_cmd == <<"/","q","u","i","t">>
save_prefix == <<"/","s","a","v","e"," ">>

InputLines ==
    { quit_cmd,
      <<"/","S","A","V","E"," ","a"," ">>,
      sample_prompt }

\* engine_choices: the engine names of the catalog engines.yaml holds; the
\* catalogs considered name the two engines chat knows, with or without a third
Catalogs == { {"openai", "anthropic"}, {"openai", "anthropic", "google"} }

\* decorator: the texts at the paths the environment and -d name
NoArgs == [list_saved |-> FALSE, prompt |-> None, prompt_file |-> None,
           interactive |-> FALSE, stdin |-> FALSE, decorator |-> <<>>,
           load |-> None, engine |-> "", nodecorator |-> FALSE]
NoEnv == [prompt_file_text |-> None, stdin_lines |-> <<>>, texts |-> <<>>,
          datasets |-> <<>>]

LoadNames == { None, Str(<<>>), Str(<<" ","a"," ">>), Str(<<"o","l","d">>),
               Str(<<"b","a","d">>), Str(<<"d","i","c","t">>),
               Str(<<"r","o","b","o","t">>), Str(<<"n","o">>) }

\* the command lines considered; -p, -f, -i and --stdin exclude each other
InteractiveArgs(engines) ==
    { a \in { [NoArgs EXCEPT !.interactive = i, !.load = l, !.engine = e,
                             !.nodecorator = nd, !.decorator = d] :
                i \in BOOLEAN, l \in LoadNames, e \in engines, nd \in BOOLEAN,
                d \in DecoratorLists } :
        /\ a.interactive \/ Truthy(a.load)
        /\ a.nodecorator \/ Truthy(a.load) => Len(a.decorator) <= 1 }
SingleArgs(engines) ==
    { [NoArgs EXCEPT !.prompt = p, !.prompt_file = f, !.stdin = s, !.engine = e,
                     !.decorator = d] :
        p \in {None, Str(<<>>), Str(sample_prompt)},
        f \in {None, Str(<<"q">>)},
        s \in BOOLEAN, e \in engines, d \in DecoratorLists }
CliArgs(engines) ==
    { a \in InteractiveArgs(engines) \cup SingleArgs(engines) :
        Cardinality({k \in {"p", "f", "i", "s"} :
            \/ k = "p" /\ a.prompt # None
            \/ k = "f" /\ a.prompt_file # None
            \/ k = "i" /\ a.interactive
            \/ k = "s" /\ a.stdin}) <= 1 }

\* the prompt file (None: no such file) and the lines of standard input
PromptFileTexts == { None, Str(<<" ","h","i","\n">>) }
StdinLines == { <<>>, << <<"h","\n">>, <<"i","\n">> >> }

\* the answers of the chat-style provider to a stream=True call
StreamResponses ==
    { Response("stream", <<>>, FALSE, <<>>, None),
      Response("stream", <<Delta(Str(<<"o">>)), Delta(Str(<<"k">>))>>, FALSE, <<>>, None),
      Response("stream", <<>>, TRUE, <<>>, None),
      Response("stream", <<Delta(Str(<<"o">>))>>, TRUE, <<>>, None),
      Response("stream", <<Delta(Str(<<"o">>)), Malformed>>, FALSE, <<>>, None) }

\* the answers of the single-prompt provider
CompletionResponses ==
    { Response("completion", <<>>, FALSE, <<>>, Dict(<< <<completion_key, Str(<<"o","k">>)>> >>)),
      Response("completion", <<>>, FALSE, <<>>, Dict(<<>>)),
      Response("completion", <<>>, TRUE, <<>>, Dict(<<>>)) }

Responses(engine) ==
    IF engine = "openai" THEN StreamResponses
    ELSE IF engine = "anthropic" THEN CompletionResponses
    ELSE {NoResponse}

\* the provider call did not complete: the library raised, or what it
\* delivered was malformed
ProviderFailed(resp) ==
    \/ resp.error
    \/ \E i \in 1..Len(resp.frags) : resp.frags[i] = Malformed
    \/ resp.kind = "completion" /\ ~DictHas(Val(resp.body), completion_key)

---------------------------------------------------------------------------
(* The sessions directory *)

sessions_data_dir == <<"~","/","s">>

\* os.path.join(sessions_data_dir, filename)
full_path(filename) ==
    IF filename # <<>> /\ Head(filename) = "/" THEN filename
    ELSE sessions_data_dir \o <<"/">> \o filename

old_session == List(<<Turn(user_role, Str(<<"h","i">>)),
                      Turn(assistant_role, Str(<<"o","k">>))>>)

\* the session files present before the first invocation
InitialFiles ==
    (full_path(<<"o","l","d">>) :> json_dump(old_session))
    @@ (full_path(<<"b","a","d">>) :> <<"[","{","o","o","p","s">>)
    @@ (full_path(<<"d","i","c","t">>) :> json_dump(Dict(<< <<role_key, Str(user_role)>> >>)))
    @@ (full_path(<<"r","o","b","o","t">>) :>
            json_dump(List(<<Dict(<< <<role_key, Str(<<"r","o","b","o","t">>)>> >>), None>>)))

NoCall == [made |-> FALSE, prompt |-> None, decorators |-> <<>>, datasets |-> <<>>,
           history |-> None, engine |-> "", stream |-> TRUE, resp |-> NoResponse]

Init ==
    /\ pc = "start"
    /\ frontend = ""
    /\ args = NoArgs
    /\ env = NoEnv
    /\ decorators = <<>>
    /\ history = List(<<>>)
    /\ line = None
    /\ loaded = FALSE
    /\ calls = 0
    /\ call = NoCall
    /\ result = NoOutcome
    /\ error = ""
    /\ files = InitialFiles
    /\ lastSaved = <<>>

---------------------------------------------------------------------------
(* rbot.py main *)

\* history.append({"role": role, "content": content})
append_turn(h, role, content) == List(Append(Val(h), Turn(role, content)))

\* reply = chat(...); history.append({"role": "assistant", "content": reply}):
\* an exception raised by chat leaves the statement after it unexecuted
append_reply(h, outcome) ==
    IF outcome.kind = "return" THEN append_turn(h, assistant_role, outcome.value)
    ELSE h

\* -ls: print the saved files and return
CliListSaved ==
    /\ pc = "start"
    /\ pc' = "done"
    /\ frontend' = "cli"
    /\ args' = [NoArgs EXCEPT !.list_saved = TRUE]
    /\ UNCHANGED <<env, decorators, history, line, loaded, calls, call, result,
                   error, files, lastSaved>>

\* from parse_known_args to the branch on args.interactive
CliStartup ==
    /\ pc = "start"
    /\ \E engine_choices \in Catalogs :
       \E a \in CliArgs(engine_choices) :
        LET load == Truthy(a.load)
            a2 == [a EXCEPT !.interactive = a.interactive \/ load,
                            !.nodecorator = a.nodecorator \/ load]
            decs == IF ~a2.nodecorator THEN a.decorator ELSE <<>>
            built == List(SystemTurns(decs))
            path == full_path(Strip(Val(a.load)))
            parsed == json_load(files[path])
            failure == IF ~load THEN ""
                       ELSE IF path \notin DOMAIN files THEN "FileNotFoundError"
                       ELSE IF ~parsed.ok THEN "JSONDecodeError"
                       ELSE ""
        IN  /\ frontend' = "cli"
            /\ args' = a2
            /\ env' = [env EXCEPT !.texts = decs]
            /\ decorators' = decs
            /\ error' = failure
            /\ loaded' = (load /\ failure = "")
            /\ history' = IF load /\ failure = "" THEN parsed.val ELSE built
            /\ pc' = IF failure # "" THEN "crashed"
                     ELSE IF a2.interactive THEN "awaiting_input"
                     ELSE "single"
    /\ UNCHANGED <<line, calls, call, result, files, lastSaved>>

\* the loop reads "/quit" in any letter case: break
InputQuit ==
    /\ pc = "awaiting_input"
    /\ \E l \in InputLines :
        /\ Lower(l) = quit_cmd
        /\ line' = Str(l)
    /\ pc' = "terminated"
    /\ UNCHANGED <<frontend, args, env, decorators, history, loaded, calls, call,
                   result, error, files, lastSaved>>

\* the loop reads a line that starts with "/save ": write the history, continue
InputSave ==
    /\ pc = "awaiting_input"
    /\ \E l \in InputLines :
        /\ Lower(l) # quit_cmd
        /\ StartsWith(Lower(l), save_prefix)
        /\ line' = Str(l)
        /\ LET filename == Strip(SubSeq(l, 7, Len(l)))
               path == full_path(filename)
           IN  /\ files' = (path :> json_dump(history)) @@ files
               /\ lastSaved' = (path :> history) @@ lastSaved
    /\ pc' = "awaiting_input"
    /\ UNCHANGED <<frontend, args, env, decorators, history, loaded, calls, call,
                   result, error>>

\* the loop reads any other line: append it, call chat, append the reply
InputPrompt ==
    /\ pc = "awaiting_input"
    /\ Tag(history) = "list" => Len(Val(history)) + 2 <= MaxTurns
    /\ \E l \in InputLines :
        /\ Lower(l) # quit_cmd
        /\ ~StartsWith(Lower(l), save_prefix)
        /\ line' = Str(l)
        /\ IF Tag(history) # "list"
           THEN \* history.append on a value that is no list
                /\ pc' = "crashed"
                /\ error' = "AttributeError"
                /\ UNCHANGED <<history, calls, call, result>>
           ELSE \E resp \in Responses(args.engine) :
                LET h1 == append_turn(history, user_role, Str(l))
                    out == chat(Str(l), decorators, TRUE, h1, args.engine, resp)
                IN  /\ call' = [made |-> TRUE, prompt |-> Str(l),
                                decorators |-> decorators, datasets |-> <<>>,
                                history |-> h1, engine |-> args.engine,
                                stream |-> TRUE, resp |-> resp]
                    /\ result' = out
                    /\ calls' = calls + 1
                    /\ history' = append_reply(h1, out)
                    /\ error' = out.exc
                    /\ pc' = IF out.kind = "raise" THEN "crashed"
                             ELSE "awaiting_input"
    /\ UNCHANGED <<frontend, args, env, decorators, loaded, files, lastSaved>>

\* the prompt of a non-interactive invocation: -p, else -f, else --stdin;
\* an option whose value is empty counts as not given
resolve_prompt(a, e) ==
    IF Truthy(a.prompt) THEN a.prompt
    ELSE IF Truthy(a.prompt_file) THEN Str(Strip(Val(e.prompt_file_text)))
    ELSE IF a.stdin /\ e.stdin_lines # <<>> THEN Str(Strip(Concat(e.stdin_lines)))
    ELSE None

\* the non-interactive branch: resolve the prompt, one call of chat, print
CliSinglePrompt ==
    /\ pc = "single"
    /\ \E ftext \in PromptFileTexts, lines \in StdinLines :
        LET e == [env EXCEPT
                    !.prompt_file_text =
                        IF ~Truthy(args.prompt) /\ Truthy(args.prompt_file)
                        THEN ftext ELSE None,
                    !.stdin_lines =
                        IF ~Truthy(args.prompt) /\ ~Truthy(args.prompt_file) /\ args.stdin
                        THEN lines ELSE <<>>]
            missing == ~Truthy(args.prompt) /\ Truthy(args.prompt_file)
                       /\ e.prompt_file_text = None
        IN  /\ env' = e
            /\ IF missing
               THEN /\ pc' = "crashed"
                    /\ error' = "FileNotFoundError"
                    /\ UNCHANGED <<history, calls, call, result>>
               ELSE \E resp \in Responses(args.engine) :
                    LET prompt == resolve_prompt(args, e)
                        h1 == append_turn(history, user_role, prompt)
                        out == chat(prompt, decorators, TRUE, h1, args.engine, resp)
                    IN  /\ call' = [made |-> TRUE, prompt |-> prompt,
                                    decorators |-> decorators, datasets |-> <<>>,
                                    history |-> h1, engine |-> args.engine,
                                    stream |-> TRUE, resp |-> resp]
                        /\ result' = out
                        /\ calls' = calls + 1
                        /\ history' = h1
                        \* pattern.search(reply) raises on a reply that is no string
                        /\ error' = IF out.kind = "raise" THEN out.exc
                                    ELSE IF Tag(out.value) # "str" THEN "TypeError"
                                    ELSE ""
                        /\ pc' = IF error' # "" THEN "crashed" ELSE "done"
    /\ UNCHANGED <<frontend, args, decorators, line, loaded, files, lastSaved>>

---------------------------------------------------------------------------
(* ragbot_streamlit.py main *)

\* helpers.chat, the dispatcher the web form imports: it submits the History
\* it is given as the message list, and returns the reply text or fails
HelperOutcomes(h) ==
    { Outcome("return", Str(<<"o","k">>), "", h, None, <<>>, TRUE),
      Outcome("raise", None, "ProviderError", h, None, <<>>, TRUE) }

\* one run of the script up to the button: the widgets are read, the
\* instruction and dataset files loaded, history built from the datasets
WebStart ==
    /\ pc = "start"
    /\ \E instructions \in DecoratorLists, datasets \in DecoratorLists :
        /\ Len(instructions) + Len(datasets) <= 2
        \* the engine widget is left at the catalog's default
        /\ args' = [NoArgs EXCEPT !.engine = "openai"]
        /\ env' = [env EXCEPT !.texts = instructions, !.datasets = datasets]
        /\ decorators' = instructions
        /\ history' = List(SystemTurns(datasets))
    /\ frontend' = "web"
    /\ pc' = "web_form"
    /\ UNCHANGED <<line, loaded, calls, call, result, error, files, lastSaved>>

\* "Get response": append the prompt, call chat, append the reply
WebGetResponse ==
    /\ pc = "web_form"
    /\ \E prompt \in {Str(<<>>), Str(sample_prompt)} :
       \E out \in HelperOutcomes(append_turn(history, user_role, prompt)) :
        LET h1 == append_turn(history, user_role, prompt) IN
        /\ call' = [made |-> TRUE, prompt |-> prompt, decorators |-> decorators,
                    datasets |-> env.datasets, history |-> h1,
                    engine |-> args.engine, stream |-> TRUE, resp |-> NoResponse]
        /\ result' = out
        /\ calls' = calls + 1
        /\ history' = append_reply(h1, out)
        /\ error' = out.exc
        /\ pc' = IF out.kind = "raise" THEN "crashed" ELSE "done"
    /\ UNCHANGED <<frontend, args, env, decorators, line, loaded, files,
                   lastSaved>>

---------------------------------------------------------------------------
(* The program over time *)

\* the program is started again; the session files are what they were
Restart ==
    /\ pc \in {"terminated", "done", "crashed"}
    /\ pc' = "start"
    /\ frontend' = ""
    /\ args' = NoArgs
    /\ env' = NoEnv
    /\ decorators' = <<>>
    /\ history' = List(<<>>)
    /\ line' = None
    /\ loaded' = FALSE
    /\ calls' = 0
    /\ call' = NoCall
    /\ result' = NoOutcome
    /\ error' = ""
    /\ UNCHANGED <<files, lastSaved>>

Next ==
    \/ CliListSaved
    \/ CliStartup
    \/ InputQuit
    \/ InputSave
    \/ InputPrompt
    \/ CliSinglePrompt
    \/ WebStart
    \/ WebGetResponse
    \/ Restart

Spec == Init /\ [][Next]_vars

---------------------------------------------------------------------------
(* chat on its own: one call with arguments of the caller's choice *)

Fragments ==
    { Delta(Str(<<"o">>)), Delta(Str(<<"k">>)), Delta(Str(<<>>)), Delta(None),
      Dict(<<>>), Malformed }

SeqsUpTo(S, n) == UNION {[1..k -> S] : k \in 0..n}

\* what the chat-style provider may answer to a call with the given stream
OpenAIResponses(stream) ==
    IF stream
    THEN { Response("stream", f, e, <<>>, None) :
             f \in SeqsUpTo(Fragments, MaxFrags), e \in BOOLEAN }
    ELSE { Response("payload", <<>>, FALSE, PayloadKeys, Str(t)) :
             t \in {<<>>, <<"o","k">>} }

ChatCalls ==
    { [made |-> TRUE, prompt |-> p, decorators |-> d, datasets |-> <<>>,
       history |-> h, engine |-> e, stream |-> s, resp |-> r] :
        p \in {None, Str(sample_prompt)},
        d \in {<<>>, << <<"x">> >>},
        h \in {None, List(<<>>), List(<<Turn(user_role, Str(sample_prompt))>>)},
        e \in {"openai"}, s \in BOOLEAN,
        r \in OpenAIResponses(TRUE) \cup OpenAIResponses(FALSE) }
    \cup
    { [made |-> TRUE, prompt |-> p, decorators |-> <<>>, datasets |-> <<>>,
       history |-> h, engine |-> e, stream |-> TRUE, resp |-> r] :
        p \in {None, Str(sample_prompt)},
        h \in {None, List(<<Turn(user_role, Str(sample_prompt))>>)},
        e \in {"anthropic", "google"},
        r \in CompletionResponses }

InitChat ==
    /\ pc = "chat"
    /\ frontend = ""
    /\ args = NoArgs
    /\ env = NoEnv
    /\ decorators = <<>>
    /\ history = List(<<>>)
    /\ line = None
    /\ loaded = FALSE
    /\ calls = 0
    /\ call \in { c \in ChatCalls :
                    c.engine = "openai" =>
                        c.resp.kind = (IF c.stream THEN "stream" ELSE "payload") }
    /\ result = NoOutcome
    /\ error = ""
    /\ files = InitialFiles
    /\ lastSaved = <<>>

ChatApply ==
    /\ pc = "chat"
    /\ result' = chat(call.prompt, call.decorators, call.stream, call.history,
                      call.engine, call.resp)
    /\ pc' = "returned"
    /\ calls' = calls + 1
    /\ UNCHANGED <<frontend, args, env, decorators, history, line, loaded, call,
                   error, files, lastSaved>>

SpecChat == InitChat /\ [][ChatApply]_vars

---------------------------------------------------------------------------
(* Properties *)

IsQuit(l) == Lower(l) = quit_cmd
IsSave(l) == ~IsQuit(l) /\ StartsWith(Lower(l), save_prefix)
SaveName(l) == Strip(SubSeq(l, 7, Len(l)))

\* an ordered list of Turns: role one of the three, content a text
IsTurnSequence(h) ==
    /\ Tag(h) = "list"
    /\ \A i \in 1..Len(Val(h)) :
        LET t == Val(h)[i] IN
        /\ Tag(t) = "dict"
        /\ DictHas(Val(t), role_key)
        /\ DictGet(Val(t), role_key) \in
               {Str(system_role), Str(user_role), Str(assistant_role)}
        /\ DictHas(Val(t), content_key)
        /\ Tag(DictGet(Val(t), content_key)) = "str"

\* the text of one fragment, empty when it carries none
FragmentText(f) ==
    IF Tag(f) = "dict" /\ DictHas(Val(f), content_key)
                       /\ Tag(DictGet(Val(f), content_key)) = "str"
    THEN Val(DictGet(Val(f), content_key))
    ELSE <<>>

\* the call of chat just made failed at the provider
CallFailed ==
    /\ call.made
    /\ \/ result.called /\ ProviderFailed(call.resp)
       \/ frontend = "web" /\ result.kind = "raise"

\* C1: with no prior History, the History handed to the provider call (and,
\* for the chat-style engine, the message list sent) is one system Turn per
\* instruction in order, then one system Turn per dataset in order, then the
\* user Turn with the prompt, in both front ends.
C1_FreshHistory ==
    (call.made /\ ~loaded /\ calls = 1 /\ Tag(call.prompt) = "str") =>
        LET expected == List(SystemTurns(call.decorators)
                             \o SystemTurns(call.datasets)
                             \o <<Turn(user_role, call.prompt)>>)
        IN  /\ call.history = expected
            /\ call.engine = "openai" => result.messages = expected

\* C2: with a prior History H (loaded, or accumulated by earlier turns of the
\* loop), the History handed to chat, and the message list chat sends for the
\* chat-style engine, are H followed by exactly one user Turn with the new
\* prompt: no decorator Turn is added and the prompt is not appended twice.
C2_PriorHistory ==
    [][ (pc = "awaiting_input" /\ calls' = calls + 1 /\ (loaded \/ calls > 0)) =>
          LET expected == List(Val(history) \o <<Turn(user_role, line')>>)
          IN  /\ call'.prompt = line'
              /\ call'.history = expected
              /\ call'.engine = "openai" => result'.messages = expected ]_vars

\* a loaded session of two or more Turns, decorators named on the command
\* line, and the first prompt sent after it
C2_Witness ==
    /\ loaded /\ calls = 1 /\ args.decorator # <<>>
    /\ call.engine = "openai" /\ result.kind = "return"
    /\ Len(Val(call.history)) >= 3
    /\ result.messages = call.history

\* C3: what the last /save wrote under a name parses back to the History that
\* was saved, and a load of that name starts the loop with exactly that History.
C3_RoundTrip ==
    /\ \A p \in DOMAIN lastSaved :
        /\ p \in DOMAIN files
        /\ json_load(files[p]).ok
        /\ json_load(files[p]).val = lastSaved[p]
    /\ (pc = "awaiting_input" /\ loaded /\ line = None
            /\ full_path(Strip(Val(args.load))) \in DOMAIN lastSaved) =>
        history = lastSaved[full_path(Strip(Val(args.load)))]

\* a session saved by an earlier invocation, with a quote and a backslash in
\* a Turn, has just been loaded
C3_Witness ==
    /\ pc = "awaiting_input" /\ loaded /\ line = None
    /\ full_path(Strip(Val(args.load))) \in DOMAIN lastSaved
    /\ Tag(history) = "list" /\ Len(Val(history)) >= 2
    /\ \E i \in 1..Len(Val(history)) : Val(history)[i] = Turn(user_role, Str(sample_prompt))

\* C4: a provider call that fails leaves the History as it was before the
\* call plus the user Turn that triggered it, which is last: no assistant
\* Turn, no partial reply.
C4_FailedCallLeavesHistory ==
    [][ (calls' = calls + 1 /\ pc # "chat" /\ CallFailed') =>
          /\ Tag(history) = "list"
          /\ history' = List(Val(history) \o <<Turn(user_role, call'.prompt)>>) ]_vars

\* a stream that failed after delivering a fragment, in the loop
C4_Witness ==
    /\ pc = "crashed" /\ call.made /\ call.resp.error /\ call.resp.frags # <<>>
    /\ calls = 2
    /\ history = call.history
    /\ Val(history)[Len(Val(history))] = Turn(user_role, call.prompt)

\* C5: in the interactive loop a failed provider call leaves the loop in
\* AWAITING_INPUT.
C5_LoopSurvivesFailure ==
    [][ (pc = "awaiting_input" /\ calls' = calls + 1 /\ CallFailed') =>
          pc' = "awaiting_input" ]_vars

\* C6: a non-interactive invocation in which no prompt source yields a prompt
\* aborts with an input error: no user Turn is appended, no call is made.
C6_NoPromptAborts ==
    (frontend = "cli" /\ ~args.interactive /\ ~args.list_saved
        /\ pc \in {"done", "crashed"} /\ resolve_prompt(args, env) = None) =>
        /\ ~call.made
        /\ \A i \in 1..Len(Val(history)) :
              DictGet(Val(Val(history)[i]), role_key) # Str(user_role)

\* C7: a call of chat that completes without failure returns a string.
C7_ReplyIsString ==
    (call.made /\ result.kind = "return") => Tag(result.value) = "str"

\* C8: for the chat-style engine, a stream=True call returns the
\* concatenation of the fragments' text in arrival order, and a stream=False
\* call returns the text of the single payload.
C8_ReplyText ==
    (pc = "returned" /\ call.engine = "openai" /\ ~ProviderFailed(call.resp)) =>
        /\ result.kind = "return"
        /\ call.stream =>
              result.value =
                  Str(Concat([i \in 1..Len(call.resp.frags) |->
                                 FragmentText(call.resp.frags[i])]))
        /\ ~call.stream => result.value = call.resp.body

\* C9: the loop is never entered with a loaded History that is not a valid
\* Turn sequence.
C9_LoadValidates ==
    (pc = "awaiting_input" /\ loaded /\ line = None) => IsTurnSequence(history)

\* C10: in the loop over a History of Turns, a save command writes the
\* History to the named file, makes no call, changes no Turn and stays in the
\* loop; the loop ends only on the quit command; any other line is appended
\* as a user Turn and dispatched.
C10_LoopCommands ==
    [][ (pc = "awaiting_input" /\ IsTurnSequence(history)) =>
          /\ (IsSave(Val(line')) /\ SaveName(Val(line')) # <<>>) =>
                /\ files'[full_path(SaveName(Val(line')))] = json_dump(history)
                /\ history' = history
                /\ calls' = calls
                /\ pc' = "awaiting_input"
          /\ pc' # "awaiting_input" => IsQuit(Val(line'))
          /\ (~IsQuit(Val(line')) /\ ~IsSave(Val(line'))) =>
                /\ calls' = calls + 1
                /\ call'.history = List(Val(history) \o <<Turn(user_role, line')>>) ]_vars

\* sub occurs in text as a run of consecutive characters
Occurs(sub, text) ==
    \E i \in 1..(Len(text) - Len(sub) + 1) : SubSeq(text, i, i + Len(sub) - 1) = sub

\* the content of entry i of a History, when that entry is a Turn with a text
HasTextContent(h, i) ==
    /\ Tag(Val(h)[i]) = "dict"
    /\ DictHas(Val(Val(h)[i]), content_key)
    /\ Tag(DictGet(Val(Val(h)[i]), content_key)) = "str"
TextContent(h, i) == Val(DictGet(Val(Val(h)[i]), content_key))

====
